---------------------------- MODULE Spec2Model ----------------------------
(***************************************************************************)
(* A model of src/minecraft.py: the block store (World), terrain and tree  *)
(* generation, the stepped ray cast, the player's per-tick update with its *)
(* collision resolution, and the input handler that places and removes     *)
(* blocks.                                                                 *)
(*                                                                         *)
(* Numbers.  The program computes with Python floats.  Here every          *)
(* continuous quantity (a player position or velocity component, a ray     *)
(* sample point, a direction component) is an integer count of U-ths of a  *)
(* world unit, U = 3 * 10^6, so that decimals to six places and thirds are *)
(* exact: 0.3 is 900000 and GRAVITY = 0.01 is 30000.  Sums and differences *)
(* of such values are exact; a product that leaves the grid is rounded     *)
(* toward zero.  Block coordinates are plain integers (grid cells).        *)
(***************************************************************************)
EXTENDS Integers, Sequences, FiniteSets, TLC

VARIABLES
    blocks,           \* World.blocks: the list of Block(position, block_type)
    position,         \* Player.position (U-ths)
    velocity,         \* Player.velocity (U-ths per tick)
    rotation,         \* Player.rotation: <<yaw, pitch>> in degrees
    on_ground,        \* Player.on_ground
    selected_block,   \* Player.selected_block
    running,          \* Game.running
    last_place_time,  \* Game.last_place_time (ms)
    clock,            \* pygame.time.get_ticks() (ms)
    pc,               \* where the program is: see Phases
    new_pos,          \* handle_input's local new_pos (Unbound until assigned)
    tick,             \* how many times Game.run's loop has run update
    inputs,           \* how many inputs the user has given
    call              \* the last call made, what it saw and what it returned

vars == <<blocks, position, velocity, rotation, on_ground, selected_block,
          running, last_place_time, clock, pc, new_pos, tick, inputs, call>>

player_vars == <<position, velocity, rotation, on_ground, selected_block>>
game_vars == <<running, last_place_time, clock, new_pos>>

----------------------------------------------------------------------------
(* Numbers *)

U == 3 * 10 ^ 6

Abs(n) == IF n < 0 THEN -n ELSE n

\* n * num / den, rounded toward zero
MulDiv(n, num, den) ==
    IF n >= 0 THEN (n * num) \div den ELSE -(((-n) * num) \div den)

Min(S) == CHOOSE m \in S : \A n \in S : m <= n

----------------------------------------------------------------------------
(* Game settings *)

RENDER_DISTANCE == 8
MOVEMENT_SPEED == U \div 10
ROTATION_SPEED == 1
GRAVITY == U \div 100
JUMP_FORCE == U \div 5

\* Block types of Block.texture_map
Dirt == 1
Stone == 2
Wood == 3
Leaves == 4
BlockTypes == {Dirt, Stone, Wood, Leaves}

----------------------------------------------------------------------------
(* World: the block store *)

Block(pos, block_type) == [position |-> pos, block_type |-> block_type]

\* World.add_block: append a new Block to the list
add_block(bs, pos, block_type) == Append(bs, Block(pos, block_type))

RemoveAt(bs, i) == [k \in 1 .. Len(bs) - 1 |-> IF k < i THEN bs[k] ELSE bs[k + 1]]

remove_block_mutant_last(bs, pos) ==
    LET hits == {i \in 1 .. Len(bs) : bs[i].position = pos}
    IN  IF hits = {} THEN [ret |-> FALSE, blocks |-> bs]
        ELSE [ret |-> TRUE, blocks |-> RemoveAt(bs, Len(bs))]

remove_block_mutant_absent(bs, pos) ==
    LET hits == {i \in 1 .. Len(bs) : bs[i].position = pos}
    IN  IF hits = {}
        THEN [ret |-> FALSE, blocks |-> IF bs = <<>> THEN bs ELSE Tail(bs)]
        ELSE [ret |-> TRUE, blocks |-> RemoveAt(bs, Min(hits))]

\* World.remove_block: pop the first block at pos, and say whether one was there
remove_block(bs, pos) ==
    LET hits == {i \in 1 .. Len(bs) : bs[i].position = pos}
    IN  IF hits = {} THEN [ret |-> FALSE, blocks |-> bs]
        ELSE [ret |-> TRUE, blocks |-> RemoveAt(bs, Min(hits))]

\* The entries of the store at a coordinate, in list order
EntriesAt(bs, pos) == SelectSeq(bs, LAMBDA b : b.position = pos)

----------------------------------------------------------------------------
(* Terrain and trees *)

\* World.add_tree, the trunk: 4 Wood blocks going up from position
TreeTrunk(pos) ==
    [i \in 1 .. 4 |-> Block(<<pos[1], pos[2] + (i - 1), pos[3]>>, Wood)]

\* The k-th (from 0) offset of the loops dx in -2..2, dy in 3..5, dz in -2..2
LeafOffset(k) == <<(k \div 15) - 2, ((k \div 5) % 3) + 3, (k % 5) - 2>>

LeafSkipped_mutant_cross(d) ==
    \/ Abs(d[1]) = 2 /\ Abs(d[3]) = 2
    \/ d[2] = 5 /\ (Abs(d[1]) > 1 \/ Abs(d[3]) > 1 \/ (d[1] # 0 /\ d[3] # 0))

\* The offsets the two "continue" statements skip
LeafSkipped(d) ==
    \/ Abs(d[1]) = 2 /\ Abs(d[3]) = 2
    \/ d[2] = 5 /\ (Abs(d[1]) > 1 \/ Abs(d[3]) > 1)

\* World.add_tree, the leaves, in the order they are added
TreeLeaves(pos) ==
    LET all == [k \in 1 .. 75 |-> LeafOffset(k - 1)]
        kept == SelectSeq(all, LAMBDA d : ~LeafSkipped(d))
    IN  [k \in 1 .. Len(kept) |->
            Block(<<pos[1] + kept[k][1], pos[2] + kept[k][2], pos[3] + kept[k][3]>>,
                  Leaves)]

\* World.add_tree: every block is added with add_block, i.e. appended
add_tree(bs, pos) == bs \o TreeTrunk(pos) \o TreeLeaves(pos)

FlatTerrain_mutant_inclusive(r) ==
    IF r < 0 THEN <<>>
    ELSE [k \in 1 .. 3 * (2 * r + 1) * (2 * r + 1) |->
            LET col == (k - 1) \div 3
                layer == (k - 1) % 3
            IN  Block(<<(col \div (2 * r + 1)) - r, layer - 2, (col % (2 * r + 1)) - r>>,
                      IF layer = 2 THEN Dirt ELSE Stone)]

\* The flat terrain of radius r in the order it is added: x, then z, then
\* Stone at y = -2, -1 and Dirt/grass at y = 0
FlatTerrain(r) ==
    IF r <= 0 THEN <<>>
    ELSE [k \in 1 .. 3 * (2 * r) * (2 * r) |->
            LET col == (k - 1) \div 3
                layer == (k - 1) % 3
            IN  Block(<<(col \div (2 * r)) - r, layer - 2, (col % (2 * r)) - r>>,
                      IF layer = 2 THEN Dirt ELSE Stone)]

Tree1 == <<2, 1, 2>>
Tree2_mutant_stateful == <<-3, 1, -1 + inputs>>
Tree2 == <<-3, 1, -1>>

\* World.generate_terrain, with r for the setting RENDER_DISTANCE it reads:
\* the flat terrain, then the two trees, whatever r is
GenerateWith(bs, r) == add_tree(add_tree(bs \o FlatTerrain(r), Tree1), Tree2)

\* World.generate_terrain
generate_terrain(bs) == GenerateWith(bs, RENDER_DISTANCE)

\* World.__init__
NewWorld == generate_terrain(<<>>)

----------------------------------------------------------------------------
(* World.ray_cast *)

\* start_pos + direction * (i / 10), the i-th sample point
SamplePoint(start_pos, direction, i) ==
    [k \in 1 .. 3 |->
        start_pos[k] + MulDiv(direction[k], i, 10)]

\* x <= point[0] <= x + 1 and y <= point[1] <= y + 1 and z <= point[2] <= z + 1
InsideBlock(b, point) ==
    \A k \in 1 .. 3 :
        /\ b.position[k] * U <= point[k]
        /\ point[k] <= (b.position[k] + 1) * U

\* The blocks among those with index in js that hold the point, by index
BlocksAt(bs, js, point) == {j \in js : InsideBlock(bs[j], point)}

NoBlock == [position |-> <<>>, block_type |-> 0]
NoPoint == <<>>

\* return None, max_distance, None
RayMiss(max_distance) ==
    [hit |-> FALSE, block |-> NoBlock, index |-> 0,
     distance |-> max_distance, point |-> NoPoint]

\* The number of samples, int(max_distance * 10)
SampleCount(max_distance) == (max_distance * 10) \div U

\* The blocks a sample of the ray can be inside: those whose cube meets the box
\* around the ray's first and last sample.  (Every sample lies in that box, so
\* looking only at these blocks returns what looking at all of them returns.)
AlongRay(bs, start_pos, direction, max_distance) ==
    LET last == SamplePoint(start_pos, direction, SampleCount(max_distance) - 1)
        lo == [k \in 1 .. 3 |-> IF last[k] < start_pos[k] THEN last[k] ELSE start_pos[k]]
        hi == [k \in 1 .. 3 |-> IF last[k] > start_pos[k] THEN last[k] ELSE start_pos[k]]
    IN  {j \in 1 .. Len(bs) :
            \A k \in 1 .. 3 :
                /\ bs[j].position[k] * U <= hi[k]
                /\ (bs[j].position[k] + 1) * U >= lo[k]}

\* The loop "for i in range(int(max_distance * 10))" from sample i on
RECURSIVE RayFrom(_, _, _, _, _, _)
RayFrom(bs, js, start_pos, direction, max_distance, i) ==
    IF i >= SampleCount(max_distance) THEN RayMiss(max_distance)
    ELSE LET point == SamplePoint(start_pos, direction, i)
             at == BlocksAt(bs, js, point)
         IN  IF at # {}
             THEN [hit |-> TRUE, block |-> bs[Min(at)], index |-> Min(at),
                   distance |-> i * (U \div 10), point |-> point]
             ELSE RayFrom(bs, js, start_pos, direction, max_distance, i + 1)

ray_cast_mutant_skip(bs, start_pos, direction, max_distance) ==
    RayFrom(bs, AlongRay(bs, start_pos, direction, max_distance),
            start_pos, direction, max_distance, 1)

\* World.ray_cast: the first sample, from distance 0 in steps of 0.1, that is
\* inside a block, with the first such block of the list
ray_cast(bs, start_pos, direction, max_distance) ==
    RayFrom(bs, AlongRay(bs, start_pos, direction, max_distance),
            start_pos, direction, max_distance, 0)

DefaultMaxDistance == 5 * U

----------------------------------------------------------------------------
(* Player *)

PlayerHeight == (18 * U) \div 10
CameraOffset == (17 * U) \div 10
HalfWidth == (3 * U) \div 10
Tenth == U \div 10
SpawnPoint == <<0, 2 * U, 0>>
FallLimit == -10 * U

\* Player.update, the test that opens the loop body: the footprints overlap
Footprint(p, bp) ==
    /\ bp[1] * U <= p.position[1] + HalfWidth
    /\ (bp[1] + 1) * U >= p.position[1] - HalfWidth
    /\ bp[3] * U <= p.position[3] + HalfWidth
    /\ (bp[3] + 1) * U >= p.position[3] - HalfWidth

GroundCollision_mutant_keepfall(p, bp) ==
    IF /\ p.position[2] >= (bp[2] + 1) * U
       /\ p.position[2] <= (bp[2] + 1) * U + Tenth
    THEN [p EXCEPT !.position[2] = (bp[2] + 1) * U, !.on_ground = TRUE]
    ELSE p

GroundCollision_mutant_nosnap(p, bp) ==
    IF /\ p.position[2] >= (bp[2] + 1) * U
       /\ p.position[2] <= (bp[2] + 1) * U + Tenth
    THEN [p EXCEPT !.velocity[2] = 0, !.on_ground = TRUE]
    ELSE p

\* Ground collision
GroundCollision(p, bp) ==
    IF /\ p.position[2] >= (bp[2] + 1) * U
       /\ p.position[2] <= (bp[2] + 1) * U + Tenth
    THEN [p EXCEPT !.position[2] = (bp[2] + 1) * U,
                   !.velocity[2] = 0,
                   !.on_ground = TRUE]
    ELSE p

CeilingCollision_mutant_grounded(p, bp) ==
    IF /\ p.position[2] + PlayerHeight >= bp[2] * U
       /\ p.position[2] + PlayerHeight <= bp[2] * U + Tenth
    THEN [p EXCEPT !.position[2] = bp[2] * U - PlayerHeight,
                   !.velocity[2] = 0,
                   !.on_ground = TRUE]
    ELSE p

\* Ceiling collision
CeilingCollision(p, bp) ==
    IF /\ p.position[2] + PlayerHeight >= bp[2] * U
       /\ p.position[2] + PlayerHeight <= bp[2] * U + Tenth
    THEN [p EXCEPT !.position[2] = bp[2] * U - PlayerHeight,
                   !.velocity[2] = 0]
    ELSE p

SideAxis_mutant_keepvelocity(p, bp, k) ==
    LET q == IF /\ p.position[k] + HalfWidth >= bp[k] * U
                /\ p.position[k] + HalfWidth <= bp[k] * U + Tenth
             THEN [p EXCEPT !.position[k] = bp[k] * U - HalfWidth]
             ELSE p
    IN  IF /\ q.position[k] - HalfWidth <= (bp[k] + 1) * U
           /\ q.position[k] - HalfWidth >= (bp[k] + 1) * U - Tenth
        THEN [q EXCEPT !.position[k] = (bp[k] + 1) * U + HalfWidth]
        ELSE q

\* One axis (1 = x, 3 = z) of the side collisions: the low face, then the high
SideAxis(p, bp, k) ==
    LET q == IF /\ p.position[k] + HalfWidth >= bp[k] * U
                /\ p.position[k] + HalfWidth <= bp[k] * U + Tenth
             THEN [p EXCEPT !.position[k] = bp[k] * U - HalfWidth,
                            !.velocity[k] = 0]
             ELSE p
    IN  IF /\ q.position[k] - HalfWidth <= (bp[k] + 1) * U
           /\ q.position[k] - HalfWidth >= (bp[k] + 1) * U - Tenth
        THEN [q EXCEPT !.position[k] = (bp[k] + 1) * U + HalfWidth,
                       !.velocity[k] = 0]
        ELSE q

\* Side collisions
SideCollision(p, bp) ==
    IF /\ p.position[2] + Tenth < (bp[2] + 1) * U
       /\ p.position[2] + PlayerHeight - Tenth > bp[2] * U
    THEN SideAxis(SideAxis(p, bp, 1), bp, 3)
    ELSE p

\* The body of "for block in world.blocks"
CollideBlock(p, bp) ==
    IF Footprint(p, bp)
    THEN SideCollision(CeilingCollision(GroundCollision(p, bp), bp), bp)
    ELSE p

\* The blocks whose footprint test can pass during the loop: a side collision
\* moves the player by at most 0.1 on an axis, once, so they are the blocks that
\* meet the footprint widened by 0.1.  (A block that fails the test leaves the
\* player as it is, so looping over these blocks gives what looping over all
\* of them gives.)
NearPlayer(p, bs) ==
    {j \in 1 .. Len(bs) :
        /\ bs[j].position[1] * U <= p.position[1] + HalfWidth + Tenth
        /\ (bs[j].position[1] + 1) * U >= p.position[1] - HalfWidth - Tenth
        /\ bs[j].position[3] * U <= p.position[3] + HalfWidth + Tenth
        /\ (bs[j].position[3] + 1) * U >= p.position[3] - HalfWidth - Tenth}

\* The loop "for block in world.blocks", over the blocks with index in js
RECURSIVE CollideOver(_, _, _)
CollideOver(p, bs, js) ==
    IF js = {} THEN p
    ELSE LET j == Min(js)
         IN  CollideOver(CollideBlock(p, bs[j].position), bs, js \ {j})

FallReset_mutant_keepvelocity(p) ==
    IF p.position[2] < FallLimit THEN [p EXCEPT !.position = SpawnPoint] ELSE p

\* Limit player height to prevent falling infinitely
FallReset(p) ==
    IF p.position[2] < FallLimit
    THEN [p EXCEPT !.position = SpawnPoint, !.velocity = <<0, 0, 0>>]
    ELSE p

Damp_mutant_nosnap(v) == MulDiv(v, 8, 10)

\* velocity *= 0.8, and 0 when below 0.01
Damp(v) ==
    LET w == MulDiv(v, 8, 10)
    IN  IF Abs(w) < U \div 100 THEN 0 ELSE w

\* Dampen velocity
DampVelocity(p) ==
    [p EXCEPT !.velocity[1] = Damp(p.velocity[1]),
              !.velocity[3] = Damp(p.velocity[3])]

\* Apply velocity
ApplyVelocity(p) ==
    [p EXCEPT !.position = [k \in 1 .. 3 |-> p.position[k] + p.velocity[k]]]

\* Apply gravity
ApplyGravity(p) ==
    IF ~p.on_ground THEN [p EXCEPT !.velocity[2] = p.velocity[2] - GRAVITY]
    ELSE p

PlayerUpdate_mutant_sticky(p, bs) ==
    LET moved == ApplyGravity(ApplyVelocity(p))
        collided == CollideOver(moved, bs, NearPlayer(moved, bs))
    IN  DampVelocity(FallReset(collided))

\* Player.update
PlayerUpdate(p, bs) ==
    LET moved == ApplyGravity(ApplyVelocity(p))
        collided == CollideOver([moved EXCEPT !.on_ground = FALSE], bs,
                                NearPlayer(moved, bs))
    IN  DampVelocity(FallReset(collided))

----------------------------------------------------------------------------
(* Game.handle_input: looking *)

\* cos(45 degrees), in U-ths
R45 == 2121320

\* np.cos(np.radians(d)) for the angles the model turns to, multiples of 45
Cos(d) ==
    LET a == d % 360
    IN  IF a = 0 THEN U
        ELSE IF a = 45 \/ a = 315 THEN R45
        ELSE IF a = 90 \/ a = 270 THEN 0
        ELSE IF a = 180 THEN -U
        ELSE -R45

Sin(d) == Cos(d - 90)

\* The product of two of these cosines and sines
TrigProduct(a, b) ==
    IF a = 0 \/ b = 0 THEN 0
    ELSE IF Abs(a) = U THEN (IF a > 0 THEN b ELSE -b)
    ELSE IF Abs(b) = U THEN (IF b > 0 THEN a ELSE -a)
    ELSE IF (a > 0) = (b > 0) THEN U \div 2 ELSE -(U \div 2)

\* Get direction player is looking
LookDirection(rot) ==
    <<TrigProduct(Cos(rot[1]), Cos(rot[2])),
      Sin(rot[2]),
      TrigProduct(Sin(rot[1]), Cos(rot[2]))>>

\* The eye: position plus camera_offset
EyePosition_mutant_feet(pos) == pos

EyePosition(pos) == <<pos[1], pos[2] + CameraOffset, pos[3]>>

PitchLimit == 90

ClampPitch_mutant_none(a) == a

\* Clamp vertical rotation
ClampPitch(a) ==
    IF a > PitchLimit THEN PitchLimit
    ELSE IF a < -PitchLimit THEN -PitchLimit
    ELSE a

\* Update camera rotation: a mouse movement of mc pixels
Turn(rot, mc) ==
    <<rot[1] + (mc[1] * ROTATION_SPEED) \div 10,
      ClampPitch(rot[2] - (mc[2] * ROTATION_SPEED) \div 10)>>

\* c * MOVEMENT_SPEED
BySpeed(c) == MulDiv(c, MOVEMENT_SPEED \div 1000, U \div 1000)

\* Keyboard input for movement: the change of velocity on axis k (1 = x, 3 = z)
Movement(rot, keys, k) ==
    LET forward == IF k = 1 THEN Cos(rot[1]) ELSE Sin(rot[1])
        right == IF k = 1 THEN Cos(rot[1] + 90) ELSE Sin(rot[1] + 90)
    IN    (IF "w" \in keys THEN -BySpeed(forward) ELSE 0)
        + (IF "s" \in keys THEN BySpeed(forward) ELSE 0)
        + (IF "a" \in keys THEN -BySpeed(right) ELSE 0)
        + (IF "d" \in keys THEN BySpeed(right) ELSE 0)

----------------------------------------------------------------------------
(* Game.handle_input: block placement and removal *)

BlockCooldown == 200
Epsilon == U \div 100
Unbound == <<>>

FaceNeighbour_mutant_swapped(bp, hit_point, prev) ==
    LET rel == [k \in 1 .. 3 |-> hit_point[k] - bp[k] * U]
    IN  IF rel[1] < Epsilon THEN <<bp[1] + 1, bp[2], bp[3]>>
        ELSE IF rel[1] > U - Epsilon THEN <<bp[1] - 1, bp[2], bp[3]>>
        ELSE prev

\* Determine which face was hit: the if/elif chain that assigns new_pos.  When
\* no branch is taken new_pos keeps what it held (prev), Unbound if nothing
FaceNeighbour(bp, hit_point, prev) ==
    LET rel == [k \in 1 .. 3 |-> hit_point[k] - bp[k] * U]
    IN  IF rel[1] < Epsilon THEN <<bp[1] - 1, bp[2], bp[3]>>
        ELSE IF rel[1] > U - Epsilon THEN <<bp[1] + 1, bp[2], bp[3]>>
        ELSE IF rel[2] < Epsilon THEN <<bp[1], bp[2] - 1, bp[3]>>
        ELSE IF rel[2] > U - Epsilon THEN <<bp[1], bp[2] + 1, bp[3]>>
        ELSE IF rel[3] < Epsilon THEN <<bp[1], bp[2], bp[3] - 1>>
        ELSE IF rel[3] > U - Epsilon THEN <<bp[1], bp[2], bp[3] + 1>>
        ELSE prev

CanPlace_mutant_strict(np, pos) ==
    ~ /\ np[1] * U < pos[1] + HalfWidth
      /\ (np[1] + 1) * U > pos[1] - HalfWidth
      /\ np[2] * U < pos[2] + PlayerHeight
      /\ (np[2] + 1) * U > pos[2]
      /\ np[3] * U < pos[3] + HalfWidth
      /\ (np[3] + 1) * U > pos[3] - HalfWidth

\* Check if player is not inside the new block position
CanPlace(np, pos) ==
    ~ /\ np[1] * U <= pos[1] + HalfWidth
      /\ (np[1] + 1) * U >= pos[1] - HalfWidth
      /\ np[2] * U <= pos[2] + PlayerHeight
      /\ (np[2] + 1) * U >= pos[2]
      /\ np[3] * U <= pos[3] + HalfWidth
      /\ (np[3] + 1) * U >= pos[3] - HalfWidth

Click_mutant_atcooldown(button, ray, bs, pos, selected, last_time, now, prev_new_pos) ==
    LET accepted == now - last_time >= BlockCooldown
        hit == accepted /\ ray.hit
        np == IF hit /\ button = 3
              THEN FaceNeighbour(ray.block.position, ray.point, prev_new_pos)
              ELSE prev_new_pos
        raised == hit /\ button = 3 /\ np = Unbound
        placed == hit /\ button = 3 /\ ~raised /\ CanPlace(np, pos)
        removed == hit /\ button = 1
    IN  [accepted |-> accepted,
         hit |-> hit,
         index |-> IF hit THEN ray.index ELSE 0,
         block |-> IF hit THEN ray.block ELSE NoBlock,
         point |-> IF hit THEN ray.point ELSE NoPoint,
         new_pos |-> np,
         raised |-> raised,
         placed |-> placed,
         removed |-> removed,
         last_place_time |-> IF accepted THEN now ELSE last_time,
         blocks |-> IF removed THEN remove_block(bs, ray.block.position).blocks
                    ELSE IF placed THEN add_block(bs, np, selected)
                    ELSE bs]

\* What a MOUSEBUTTONDOWN event does, from the state it is handled in
\* (ray is what self.world.ray_cast(camera_pos, look_dir) returns there)
Click(button, ray, bs, pos, selected, last_time, now, prev_new_pos) ==
    LET accepted == now - last_time > BlockCooldown
        hit == accepted /\ ray.hit
        np == IF hit /\ button = 3
              THEN FaceNeighbour(ray.block.position, ray.point, prev_new_pos)
              ELSE prev_new_pos
        raised == hit /\ button = 3 /\ np = Unbound
        placed == hit /\ button = 3 /\ ~raised /\ CanPlace(np, pos)
        removed == hit /\ button = 1
    IN  [accepted |-> accepted,
         hit |-> hit,
         index |-> IF hit THEN ray.index ELSE 0,
         block |-> IF hit THEN ray.block ELSE NoBlock,
         point |-> IF hit THEN ray.point ELSE NoPoint,
         new_pos |-> np,
         raised |-> raised,
         placed |-> placed,
         removed |-> removed,
         last_place_time |-> IF accepted THEN now ELSE last_time,
         blocks |-> IF removed THEN remove_block(bs, ray.block.position).blocks
                    ELSE IF placed THEN add_block(bs, np, selected)
                    ELSE bs]

----------------------------------------------------------------------------
(* Bounds *)

\* Frames a run of the game lasts
MaxTicks == 16
\* Inputs (events, mouse movements, frames with a key held) in a run
MaxInputs == 2
\* The clock stops here
MaxTime == 250
\* The camera turns at most this far from where it starts
MaxYaw == 90
\* Calls in a run of the World interface
MaxCalls == 3
\* Updates in a run of the Player interface
MaxUpdates == 3
\* Jump triggers in a run of the jump on its own, and the frames it lasts
MaxJumps == 1
MaxJumpTicks == 50
\* Inputs in a run of clicks, the frames it lasts, and where its clock stops
MaxClickInputs == 3
MaxClickTicks == 2
MaxClickTime == 430
\* Frames with a movement key held in a walk on its own, and the frames it lasts
MaxWalkInputs == 9
MaxWalkTicks == 9
\* Frames with a mouse movement in a run of looking around, the frames it
\* lasts, and how far the camera turns
MaxLooks == 4
MaxLookTicks == 6
MaxLookYaw == 180
\* Frames a run of a drift lasts
MaxDriftTicks == 60
\* Inputs in a run of placements, and the frames it lasts
MaxPlaceInputs == 3
MaxPlaceTicks == 3

----------------------------------------------------------------------------
(* The game: Game.__init__ and the loop of Game.run *)

ThePlayer == [position |-> position, velocity |-> velocity, on_ground |-> on_ground]

Keys == {"ESCAPE", "1", "2", "3", "4", "SPACE"}
Buttons == {1, 2, 3}
MouseChanges == {<<0, 0>>, <<450, 450>>, <<900, -450>>}
KeySets == {{}, {"w"}}
ClockSteps == {250}

\* Game.__init__
Init ==
    /\ blocks = NewWorld
    /\ position = SpawnPoint
    /\ velocity = <<0, 0, 0>>
    /\ rotation = <<0, 0>>
    /\ on_ground = FALSE
    /\ selected_block = Dirt
    /\ running = TRUE
    /\ last_place_time = 0
    /\ clock = 0
    /\ pc = "events"
    /\ new_pos = Unbound
    /\ tick = 0
    /\ inputs = 0
    /\ call = [op |-> "init"]

\* pygame.time.get_ticks() moves on
ClockAdvance ==
    /\ pc = "events"
    /\ \E dt \in ClockSteps :
        /\ clock + dt <= MaxTime
        /\ clock' = clock + dt
    /\ UNCHANGED <<blocks, player_vars, running, last_place_time, pc, new_pos,
                   tick, inputs, call>>

\* event.type == pygame.QUIT
Quit ==
    /\ pc = "events"
    /\ inputs < MaxInputs
    /\ running' = FALSE
    /\ inputs' = inputs + 1
    /\ call' = [op |-> "quit"]
    /\ UNCHANGED <<blocks, player_vars, last_place_time, clock, pc, new_pos, tick>>

Jump_mutant_always(v, grounded) == [v EXCEPT ![2] = JUMP_FORCE]

\* Jump: "and self.player.on_ground", then velocity[1] = JUMP_FORCE
Jump(v, grounded) == IF grounded THEN [v EXCEPT ![2] = JUMP_FORCE] ELSE v

\* event.type == pygame.KEYDOWN, for one of the given keys, while fewer than
\* limit inputs have been given
KeyDownIn(keys, limit) ==
    /\ pc = "events"
    /\ inputs < limit
    /\ \E key \in keys :
        /\ running' = IF key = "ESCAPE" THEN FALSE ELSE running
        /\ selected_block' =
              IF key = "1" THEN 1
              ELSE IF key = "2" THEN 2
              ELSE IF key = "3" THEN 3
              ELSE IF key = "4" THEN 4
              ELSE selected_block
        /\ velocity' = IF key = "SPACE" THEN Jump(velocity, on_ground) ELSE velocity
        /\ call' = [op |-> "key", key |-> key, on_ground |-> on_ground,
                    before |-> ThePlayer, rotation |-> rotation,
                    selected |-> selected_block]
    /\ inputs' = inputs + 1
    /\ UNCHANGED <<blocks, position, rotation, on_ground, last_place_time, clock,
                   pc, new_pos, tick>>

\* event.type == pygame.KEYDOWN
KeyDown == KeyDownIn(Keys, MaxInputs)

\* event.type == pygame.MOUSEBUTTONDOWN, while fewer than limit inputs have
\* been given.  A new_pos that is still unbound when it is read raises
\* UnboundLocalError, which nothing catches.  The record of the call keeps
\* the point the ray was cast from
MouseButtonDownIn(limit) ==
    /\ pc = "events"
    /\ inputs < limit
    /\ \E button \in Buttons :
       \E ray \in {ray_cast(blocks, EyePosition(position), LookDirection(rotation),
                            DefaultMaxDistance)} :
       \E c \in {Click(button, ray, blocks, position, selected_block,
                        last_place_time, clock, new_pos)} :
            /\ blocks' = c.blocks
            /\ last_place_time' = c.last_place_time
            /\ new_pos' = c.new_pos
            /\ pc' = IF c.raised THEN "crashed" ELSE pc
            /\ call' = [op |-> "click", button |-> button, accepted |-> c.accepted,
                        hit |-> c.hit, index |-> c.index, block |-> c.block,
                        point |-> c.point, new_pos |-> c.new_pos,
                        raised |-> c.raised, placed |-> c.placed,
                        removed |-> c.removed, selected |-> selected_block,
                        last_time |-> last_place_time, now |-> clock,
                        before |-> blocks, player |-> position,
                        eye |-> EyePosition(position)]
    /\ inputs' = inputs + 1
    /\ UNCHANGED <<player_vars, running, clock, tick>>

\* event.type == pygame.MOUSEBUTTONDOWN
MouseButtonDown == MouseButtonDownIn(MaxInputs)

\* The rest of handle_input, after the event loop: the mouse movement turns
\* the camera and the keys held change the velocity.  The record of the call
\* keeps where the event handled last in this handle_input cast its ray from.  The mouse changes and
\* key sets are the given ones; a frame in which the mouse moves or a key is
\* held is an input, of which there are at most limit, and the camera turns
\* at most yaw_limit from where it starts
InputEndWithin(changes, keysets, limit, yaw_limit) ==
    /\ pc = "events"
    /\ \E mc \in changes, keys \in keysets :
        LET idle == mc = <<0, 0>> /\ keys = {}
            rot == Turn(rotation, mc)
        IN  /\ idle \/ inputs < limit
            /\ Abs(rot[1]) <= yaw_limit
            /\ rotation' = rot
            /\ velocity' = [velocity EXCEPT ![1] = @ + Movement(rot, keys, 1),
                                            ![3] = @ + Movement(rot, keys, 3)]
            /\ inputs' = IF idle THEN inputs ELSE inputs + 1
            /\ call' = [op |-> "input", mouse_change |-> mc, keys |-> keys,
                        rotation |-> rotation,
                        cast_from |-> IF call.op = "click" /\ call.accepted
                                      THEN {call.eye} ELSE {}]
    /\ pc' = "update"
    /\ UNCHANGED <<blocks, position, on_ground, selected_block, running,
                   last_place_time, clock, new_pos, tick>>

\* The same, with the camera turning at most MaxYaw
InputEndIn(changes, keysets, limit) == InputEndWithin(changes, keysets, limit, MaxYaw)

\* The rest of handle_input, after the event loop
InputEnd == InputEndIn(MouseChanges, KeySets, MaxInputs)

\* Game.update, then the loop's test of self.running; the next handle_input
\* starts with new_pos unbound.  The run lasts limit frames
UpdateIn(limit) ==
    /\ pc = "update"
    /\ tick < limit
    /\ \E p \in {PlayerUpdate(ThePlayer, blocks)} :
           /\ position' = p.position
           /\ velocity' = p.velocity
           /\ on_ground' = p.on_ground
    /\ tick' = tick + 1
    /\ pc' = IF running THEN "events" ELSE "done"
    /\ new_pos' = Unbound
    /\ call' = [op |-> "update", before |-> ThePlayer,
                cast_from |-> IF call.op = "input" THEN call.cast_from ELSE {}]
    /\ UNCHANGED <<blocks, rotation, selected_block, running, last_place_time,
                   clock, inputs>>

\* Game.update
Update == UpdateIn(MaxTicks)

Next ==
    \/ ClockAdvance
    \/ Quit
    \/ KeyDown
    \/ MouseButtonDown
    \/ InputEnd
    \/ Update

Spec == Init /\ [][Next]_vars

----------------------------------------------------------------------------
(* The World interface on its own: a World is constructed and then         *)
(* add_block, remove_block and ray_cast are called on it                   *)

\* The coordinates, block types, rays and distances the calls are made with
WorldPositions == {<<2, 4, 2>>, <<0, 0, 0>>, <<0, 1, 0>>}
AddTypes == {Wood}
Thirds(v) == [k \in 1 .. 3 |-> v[k] * (U \div 3)]
Rays ==
    {[start_pos |-> <<-U, 2 * U, -(U \div 4)>>, direction |-> Thirds(<<2, -2, 1>>)],
     [start_pos |-> <<U \div 2, 3 * U, U \div 2>>, direction |-> Thirds(<<0, -3, 0>>)],
     [start_pos |-> <<U \div 2, (3 * U) \div 2, U \div 2>>,
      direction |-> Thirds(<<0, -3, 0>>)],
     [start_pos |-> <<U \div 2, (3 * U) \div 2, U \div 2>>,
      direction |-> Thirds(<<0, 3, 0>>)],
     [start_pos |-> <<U \div 2, U \div 2, U \div 2>>,
      direction |-> Thirds(<<0, 3, 0>>)]}
MaxDistances == {DefaultMaxDistance, (11 * U) \div 20}

NoCall == [op |-> "init", pos |-> <<>>, ret |-> FALSE]

\* What the next call remembers of the call before it
Last(c) == [op |-> c.op, pos |-> c.pos, ret |-> c.ret]

\* World.__init__, with a player and a game that nothing touches
InitWorld ==
    /\ blocks = NewWorld
    /\ position = SpawnPoint
    /\ velocity = <<0, 0, 0>>
    /\ rotation = <<0, 0>>
    /\ on_ground = FALSE
    /\ selected_block = Dirt
    /\ running = TRUE
    /\ last_place_time = 0
    /\ clock = 0
    /\ pc = "api"
    /\ new_pos = Unbound
    /\ tick = 0
    /\ inputs = 0
    /\ call = NoCall

\* world.add_block(pos, block_type)
ApiAdd ==
    /\ pc = "api"
    /\ inputs < MaxCalls
    /\ \E pos \in WorldPositions, block_type \in AddTypes :
        /\ blocks' = add_block(blocks, pos, block_type)
        /\ call' = [op |-> "add", pos |-> pos, block_type |-> block_type,
                    ret |-> FALSE, before |-> blocks, last |-> Last(call)]
    /\ inputs' = inputs + 1
    /\ UNCHANGED <<player_vars, game_vars, pc, tick>>

\* world.remove_block(pos)
ApiRemove ==
    /\ pc = "api"
    /\ inputs < MaxCalls
    /\ \E pos \in WorldPositions :
       \E r \in {remove_block(blocks, pos)} :
        /\ blocks' = r.blocks
        /\ call' = [op |-> "remove", pos |-> pos, ret |-> r.ret,
                    before |-> blocks, last |-> Last(call)]
    /\ inputs' = inputs + 1
    /\ UNCHANGED <<player_vars, game_vars, pc, tick>>

\* world.ray_cast(start_pos, direction, max_distance)
ApiRayCast ==
    /\ pc = "api"
    /\ inputs < MaxCalls
    /\ \E ray \in Rays, max_distance \in MaxDistances :
       \E r \in {ray_cast(blocks, ray.start_pos, ray.direction, max_distance)} :
        /\ call' = [op |-> "ray_cast", pos |-> <<>>, ret |-> r.hit,
                    start_pos |-> ray.start_pos, direction |-> ray.direction,
                    max_distance |-> max_distance, result |-> r,
                    before |-> blocks, last |-> Last(call)]
    /\ inputs' = inputs + 1
    /\ UNCHANGED <<blocks, player_vars, game_vars, pc, tick>>

NextWorld ==
    \/ ApiAdd
    \/ ApiRemove
    \/ ApiRayCast

SpecWorld == InitWorld /\ [][NextWorld]_vars

----------------------------------------------------------------------------
(* The Player interface on its own: a player is put somewhere in a world   *)
(* with some velocity and Player.update is called on it                    *)

\* The worlds, places and velocities the player starts with
LowBlock == <<0, -12, 0>>
PlayerWorlds == {NewWorld, add_block(NewWorld, LowBlock, Stone)}
StartColumns == {<<0, 0>>, <<(7 * U) \div 4, (5 * U) \div 2>>, <<(33 * U) \div 4, 0>>}
StartHeights == {U + U \div 20, -11 * U + U \div 20, -10 * U - U \div 20,
                 -10 * U + U \div 20, 2 * U + U \div 20, 2 * U + (3 * U) \div 20}
StartFalls == {-(U \div 100), -(U \div 20), -((3 * U) \div 50), -(U \div 10), 0,
               U \div 5}
StartDrifts == {0, U \div 20, U \div 10}

InitPlayer ==
    /\ blocks \in PlayerWorlds
    /\ \E c \in StartColumns, h \in StartHeights : position = <<c[1], h, c[2]>>
    /\ \E d \in StartDrifts, f \in StartFalls : velocity = <<d, f, 0>>
    /\ rotation = <<0, 0>>
    /\ on_ground \in BOOLEAN
    /\ selected_block = Dirt
    /\ running = TRUE
    /\ last_place_time = 0
    /\ clock = 0
    /\ pc = "player"
    /\ new_pos = Unbound
    /\ tick = 0
    /\ inputs = 0
    /\ call = NoCall

\* player.update(world)
ApiUpdate ==
    /\ pc = "player"
    /\ inputs < MaxUpdates
    /\ \E p \in {PlayerUpdate(ThePlayer, blocks)} :
        /\ position' = p.position
        /\ velocity' = p.velocity
        /\ on_ground' = p.on_ground
    /\ call' = [op |-> "update", before |-> ThePlayer]
    /\ inputs' = inputs + 1
    /\ UNCHANGED <<blocks, rotation, selected_block, game_vars, pc, tick>>

NextPlayer == ApiUpdate

SpecPlayer == InitPlayer /\ [][NextPlayer]_vars

----------------------------------------------------------------------------
(* The face detection of the place action on its own: a hit block and a    *)
(* hit point inside its closed cube are given, and the if/elif chain that   *)
(* assigns new_pos runs on them                                            *)

HitCells == {<<0, 0, 0>>, <<2, 4, 2>>}
HitOffsets == {0, Epsilon - 1, Epsilon, U \div 2, U - Epsilon, U - Epsilon + 1, U}

InitFace ==
    /\ blocks = NewWorld
    /\ position = SpawnPoint
    /\ velocity = <<0, 0, 0>>
    /\ rotation = <<0, 0>>
    /\ on_ground = FALSE
    /\ selected_block = Dirt
    /\ running = TRUE
    /\ last_place_time = 0
    /\ clock = 0
    /\ pc = "face"
    /\ new_pos = Unbound
    /\ tick = 0
    /\ inputs = 0
    /\ \E c \in HitCells, rel \in HitOffsets \X HitOffsets \X HitOffsets :
          call = [op |-> "hit", block |-> c,
                  point |-> [k \in 1 .. 3 |-> c[k] * U + rel[k]]]

\* rel_x, rel_y, rel_z and the if/elif chain
FaceDetect ==
    /\ pc = "face"
    /\ new_pos' = FaceNeighbour(call.block, call.point, new_pos)
    /\ call' = [op |-> "face", block |-> call.block, point |-> call.point,
                new_pos |-> new_pos']
    /\ pc' = "faced"
    /\ UNCHANGED <<blocks, player_vars, running, last_place_time, clock, tick, inputs>>

NextFace == FaceDetect

SpecFace == InitFace /\ [][NextFace]_vars

----------------------------------------------------------------------------
(* Terrain generation on its own: a World is constructed under some         *)
(* RENDER_DISTANCE, and then further Worlds are constructed, the terrain is *)
(* generated again into the same store, and blocks are removed             *)

\* The values of RENDER_DISTANCE and the coordinates removed
Radii == {-1, 0, 1, 2}
TerrainPositions == {<<0, 0, 0>>, <<2, 4, 2>>, <<2, 1, 2>>}

\* The (coordinate, block type) pairs of a store
PairsOf(bs) == {<<bs[j].position, bs[j].block_type>> : j \in 1 .. Len(bs)}

\* World.__init__ under RENDER_DISTANCE = r: a fresh store, generated into
InitTerrain ==
    /\ position = SpawnPoint
    /\ velocity = <<0, 0, 0>>
    /\ rotation = <<0, 0>>
    /\ on_ground = FALSE
    /\ selected_block = Dirt
    /\ running = TRUE
    /\ last_place_time = 0
    /\ clock = 0
    /\ pc = "terrain"
    /\ new_pos = Unbound
    /\ tick = 0
    /\ inputs = 0
    /\ \E r \in Radii :
        \E w \in {GenerateWith(<<>>, r)} :
            /\ blocks = w
            /\ call = [op |-> "construct", radius |-> r, pos |-> <<>>, ret |-> FALSE,
                       before |-> <<>>,
                       first |-> [radius |-> r, pairs |-> PairsOf(w)]]

\* World(): another fresh store is generated into, which takes the place of
\* the one before
Construct ==
    /\ pc = "terrain"
    /\ inputs < MaxCalls
    /\ \E r \in Radii :
        /\ blocks' = GenerateWith(<<>>, r)
        /\ call' = [op |-> "construct", radius |-> r, pos |-> <<>>, ret |-> FALSE,
                    before |-> <<>>, first |-> call.first]
    /\ inputs' = inputs + 1
    /\ UNCHANGED <<player_vars, game_vars, pc, tick>>

\* world.generate_terrain(), once more into the store that is there
Regenerate ==
    /\ pc = "terrain"
    /\ inputs < MaxCalls
    /\ \E r \in Radii :
        /\ blocks' = GenerateWith(blocks, r)
        /\ call' = [op |-> "generate", radius |-> r, pos |-> <<>>, ret |-> FALSE,
                    before |-> blocks, first |-> call.first]
    /\ inputs' = inputs + 1
    /\ UNCHANGED <<player_vars, game_vars, pc, tick>>

\* world.remove_block(pos)
TerrainRemove ==
    /\ pc = "terrain"
    /\ inputs < MaxCalls
    /\ \E pos \in TerrainPositions :
       \E r \in {remove_block(blocks, pos)} :
        /\ blocks' = r.blocks
        /\ call' = [op |-> "remove", radius |-> 0, pos |-> pos, ret |-> r.ret,
                    before |-> blocks, first |-> call.first]
    /\ inputs' = inputs + 1
    /\ UNCHANGED <<player_vars, game_vars, pc, tick>>

NextTerrain ==
    \/ Construct
    \/ Regenerate
    \/ TerrainRemove

SpecTerrain == InitTerrain /\ [][NextTerrain]_vars

----------------------------------------------------------------------------
(* A jump on its own: the player stands at rest on the generated terrain,  *)
(* gets a jump trigger in some frame, and nothing else is put in           *)

\* Where the player stands: on the open ground, and where the fall from the
\* spawn point ends (under the leaves of the second tree)
JumpSpots == {<<U \div 2, U, -2 * U>>, <<0, U, 0>>}

InitJump ==
    /\ blocks = NewWorld
    /\ position \in JumpSpots
    /\ velocity = <<0, 0, 0>>
    /\ rotation = <<0, 0>>
    /\ on_ground = TRUE
    /\ selected_block = Dirt
    /\ running = TRUE
    /\ last_place_time = 0
    /\ clock = 0
    /\ pc = "events"
    /\ new_pos = Unbound
    /\ tick = 0
    /\ inputs = 0
    /\ call = [op |-> "init"]

\* event.key == pygame.K_SPACE
JumpKey == KeyDownIn({"SPACE"}, MaxJumps)

\* The rest of handle_input with the mouse still and no key held
JumpInputEnd == InputEndIn({<<0, 0>>}, {{}}, 0)

\* Game.update
JumpUpdate == UpdateIn(MaxJumpTicks)

NextJump ==
    \/ JumpKey
    \/ JumpInputEnd
    \/ JumpUpdate

SpecJump == InitJump /\ [][NextJump]_vars

----------------------------------------------------------------------------
(* A walk on its own: the player stands at rest where the fall from the     *)
(* spawn point ends, and movement keys are held in some of the frames      *)

WalkKeySets == {{}, {"w"}}

InitWalk ==
    /\ blocks = NewWorld
    /\ position = <<0, U, 0>>
    /\ velocity = <<0, 0, 0>>
    /\ rotation = <<0, 0>>
    /\ on_ground = TRUE
    /\ selected_block = Dirt
    /\ running = TRUE
    /\ last_place_time = 0
    /\ clock = 0
    /\ pc = "events"
    /\ new_pos = Unbound
    /\ tick = 0
    /\ inputs = 0
    /\ call = [op |-> "init"]

\* The rest of handle_input with the mouse still and a movement key held or not
WalkInputEnd == InputEndIn({<<0, 0>>}, WalkKeySets, MaxWalkInputs)

\* Game.update
WalkUpdate == UpdateIn(MaxWalkTicks)

NextWalk ==
    \/ WalkInputEnd
    \/ WalkUpdate

SpecWalk == InitWalk /\ [][NextWalk]_vars

----------------------------------------------------------------------------
(* Clicks on their own: the game starts, the camera may be turned down to   *)
(* the ground, and mouse buttons are pressed as the clock moves on         *)

\* The milliseconds that pass between two readings of the clock
ClickSteps == {100, 110}

\* pygame.time.get_ticks() moves on
ClockTick ==
    /\ pc = "events"
    /\ \E dt \in ClickSteps :
        /\ clock + dt <= MaxClickTime
        /\ clock' = clock + dt
    /\ UNCHANGED <<blocks, player_vars, running, last_place_time, pc, new_pos,
                   tick, inputs, call>>

\* event.type == pygame.MOUSEBUTTONDOWN
ClickButtonDown == MouseButtonDownIn(MaxClickInputs)

\* The rest of handle_input, with the mouse still or moved by (450, 450) and
\* no key held
ClickInputEnd == InputEndIn({<<0, 0>>, <<450, 450>>}, {{}}, MaxClickInputs)

\* Game.update
ClickUpdate == UpdateIn(MaxClickTicks)

NextClicks ==
    \/ ClockTick
    \/ ClickButtonDown
    \/ ClickInputEnd
    \/ ClickUpdate

SpecClicks == Init /\ [][NextClicks]_vars

----------------------------------------------------------------------------
(* Placements on their own: the player stands at rest where the fall from   *)
(* the spawn point ends, turns the camera towards the ground and presses    *)
(* mouse buttons                                                           *)

\* The mouse movements of a frame: none, 45 degrees down, 45 degrees round
PlaceTurns == {<<0, 0>>, <<0, 450>>, <<450, 0>>}

\* event.type == pygame.MOUSEBUTTONDOWN
PlaceButtonDown == MouseButtonDownIn(MaxPlaceInputs)

\* The rest of handle_input, with one of the mouse movements and no key held
PlaceInputEnd == InputEndIn(PlaceTurns, {{}}, MaxPlaceInputs)

\* Game.update
PlaceUpdate == UpdateIn(MaxPlaceTicks)

NextPlace ==
    \/ ClockAdvance
    \/ PlaceButtonDown
    \/ PlaceInputEnd
    \/ PlaceUpdate

SpecPlace == InitWalk /\ [][NextPlace]_vars

----------------------------------------------------------------------------
(* A drift on its own: the player stands on the ground with some horizontal *)
(* velocity, and frame after frame passes with the mouse still and no key  *)
(* held.  The loop of Game.run goes on while the game is running, so a     *)
(* frame that can be run is run                                            *)

\* Where the drift starts: the middle of the terrain, and beside its east edge
DriftSpots == {<<0, U, 0>>, <<(79 * U) \div 10, U, 0>>}
\* The velocities it starts with, on x and on z
DriftSpeedsX == {0, U \div 20, (2 * U) \div 5, -(U \div 10)}
DriftSpeedsZ == {0, U \div 10}

InitDrift ==
    /\ blocks = NewWorld
    /\ position \in DriftSpots
    /\ \E vx \in DriftSpeedsX, vz \in DriftSpeedsZ : velocity = <<vx, 0, vz>>
    /\ rotation = <<0, 0>>
    /\ on_ground = TRUE
    /\ selected_block = Dirt
    /\ running = TRUE
    /\ last_place_time = 0
    /\ clock = 0
    /\ pc = "events"
    /\ new_pos = Unbound
    /\ tick = 0
    /\ inputs = 0
    /\ call = [op |-> "init"]

\* The rest of handle_input with the mouse still and no key held
DriftInputEnd == InputEndIn({<<0, 0>>}, {{}}, 0)

\* Game.update
DriftUpdate == UpdateIn(MaxDriftTicks)

NextDrift ==
    \/ DriftInputEnd
    \/ DriftUpdate

\* A frame's update is run: the steps of DriftUpdate are the steps of the
\* game that do this, and it can be done exactly when DriftUpdate can
FrameRuns == pc = "update" /\ tick < MaxDriftTicks /\ tick' = tick + 1

\* while self.running: handle_input() and update() return and the loop goes
\* round, so neither waits for ever: weak fairness of each of the two
SpecDrift ==
    InitDrift /\ [][NextDrift]_vars /\ WF_vars(DriftInputEnd) /\ WF_tick(FrameRuns)

----------------------------------------------------------------------------
(* Looking around on its own: the game starts and the mouse is moved in    *)
(* some of the frames                                                      *)

\* The mouse movements of a frame: none, 45 degrees round and down, 45 up
LookChanges == {<<0, 0>>, <<450, 450>>, <<0, -450>>}

\* The rest of handle_input, with one of the mouse movements and no key held
LookInputEnd == InputEndWithin(LookChanges, {{}}, MaxLooks, MaxLookYaw)

\* Game.update
LookUpdate == UpdateIn(MaxLookTicks)

NextLook ==
    \/ LookInputEnd
    \/ LookUpdate

SpecLook == Init /\ [][NextLook]_vars

----------------------------------------------------------------------------
(* The block store *)

\* The coordinates that have an entry
Occupied(bs) == {bs[j].position : j \in 1 .. Len(bs)}

\* C1. Uniqueness: after any sequence of adds (those of the terrain and tree
\* generation included) the store never holds two entries for one coordinate,
\* and after an add every entry found at the coordinate added to has the type
\* that add gave.
Uniqueness ==
    /\ Cardinality(Occupied(blocks)) = Len(blocks)
    /\ call.op = "add" =>
          \A j \in 1 .. Len(blocks) :
              blocks[j].position = call.pos => blocks[j].block_type = call.block_type

\* C2. Remove twice: a remove of a coordinate that is present returns true and
\* leaves no block at that coordinate, and a remove of the same coordinate
\* right after it returns false.
RemoveTwice ==
    call.op = "remove" =>
        /\ EntriesAt(call.before, call.pos) # <<>> =>
              call.ret /\ EntriesAt(blocks, call.pos) = <<>>
        /\ (call.last.op = "remove" /\ call.last.pos = call.pos /\ call.last.ret) =>
              ~call.ret

\* C3. Remove of an absent coordinate: remove_block returns false and leaves
\* the store's entries, and their order, as they were.
RemoveAbsent ==
    (call.op = "remove" /\ EntriesAt(call.before, call.pos) = <<>>) =>
        ~call.ret /\ blocks = call.before

\* A remove of a coordinate with no block has been made
RemoveAbsentSeen ==
    /\ call.op = "remove"
    /\ EntriesAt(call.before, call.pos) = <<>>
    /\ ~call.ret

----------------------------------------------------------------------------
(* The ray cast *)

\* The grid cells whose closed unit cube holds the point
CellsOf(point) ==
    {c \in {point[1] \div U - 1, point[1] \div U}
           \X {point[2] \div U - 1, point[2] \div U}
           \X {point[3] \div U - 1, point[3] \div U} :
        \A k \in 1 .. 3 : c[k] * U <= point[k] /\ point[k] <= (c[k] + 1) * U}

\* The sample numbers i whose distance i / 10 is below max_distance
SamplesBelow(max_distance) ==
    {i \in 0 .. (max_distance \div Tenth) : i * Tenth < max_distance}

\* The sample numbers i below int(max_distance * 10)
SamplesCounted(max_distance) ==
    {i \in 0 .. (max_distance \div Tenth) : i < (10 * max_distance) \div U}

\* The last call was a ray cast that returned the first of the samples S that
\* is inside a block of the store, with its distance and point, and absent
\* when none of them is
FirstSampleOf(S) ==
    \A P \in {Occupied(call.before)} :
    \A in \in {{i \in S : CellsOf(SamplePoint(call.start_pos, call.direction, i))
                            \cap P # {}}} :
        IF in = {}
        THEN /\ ~call.result.hit
             /\ call.result.block = NoBlock
             /\ call.result.point = NoPoint
        ELSE /\ call.result.hit
             /\ call.result.distance = Min(in) * Tenth
             /\ call.result.point =
                   SamplePoint(call.start_pos, call.direction, Min(in))
             /\ call.result.block = call.before[call.result.index]
             /\ call.result.block.position \in CellsOf(call.result.point)
             /\ call.result.distance < call.max_distance

\* C4. Ray cast result: the ray is sampled at the distances 0, 0.1, 0.2, ...
\* below max_distance; the cast returns the block, distance and point of the
\* first sample that is inside some block's closed cube, and absent exactly
\* when no sample is inside a block.
RayCastResult ==
    call.op = "ray_cast" => FirstSampleOf(SamplesBelow(call.max_distance))

\* C4, as the code has it: the samples are those numbered below
\* int(max_distance * 10), so a max_distance that is no multiple of 0.1 loses
\* its last sample.
RayCastResultCounted ==
    call.op = "ray_cast" => FirstSampleOf(SamplesCounted(call.max_distance))

\* A ray cast has returned a block that it met after its first sample
RayCastHitSeen ==
    /\ call.op = "ray_cast"
    /\ call.result.hit
    /\ call.result.distance > 0

\* Lengths in twelfths of a world unit, in which the rays cast here are exact
Twelfth == U \div 12
InTwelfths(v) == [k \in 1 .. 3 |-> v[k] \div Twelfth]
Exact(v, unit) == \A k \in 1 .. 3 : v[k] % unit = 0
Centre(c) == [k \in 1 .. 3 |-> 12 * c[k] + 6]
Dot(v, w) == v[1] * w[1] + v[2] * w[2] + v[3] * w[3]
Cross(v, w) == <<v[2] * w[3] - v[3] * w[2],
                 v[3] * w[1] - v[1] * w[3],
                 v[1] * w[2] - v[2] * w[1]>>

\* Fractions n / d, as <<n, d>> with d > 0
Frac(n, d) == IF d > 0 THEN <<n, d>> ELSE <<-n, -d>>
FracLess(a, b) == a[1] * b[2] < b[1] * a[2]

\* The straight segment from o to e (twelfths) passes through the inside of
\* the unit cube of cell c: the parameters t at which it is strictly inside
\* on every axis are an open interval, which meets [0, 1]
CrossesBlock(o, e, c) ==
    LET d == [k \in 1 .. 3 |-> e[k] - o[k]]
        lo == [k \in 1 .. 3 |-> 12 * c[k] - o[k]]
        hi == [k \in 1 .. 3 |-> 12 * c[k] + 12 - o[k]]
        moving == {k \in 1 .. 3 : d[k] # 0}
        enter == {IF d[k] > 0 THEN Frac(lo[k], d[k]) ELSE Frac(hi[k], d[k]) : k \in moving}
        leave == {IF d[k] > 0 THEN Frac(hi[k], d[k]) ELSE Frac(lo[k], d[k]) : k \in moving}
    IN  /\ \A k \in (1 .. 3) \ moving : lo[k] < 0 /\ 0 < hi[k]
        /\ \A a \in enter, b \in leave : FracLess(a, b)
        /\ \A a \in enter : FracLess(a, <<1, 1>>)
        /\ \A b \in leave : FracLess(<<0, 1>>, b)

\* The cells of the box around the segment from o to e (twelfths)
CellsAround(o, e) ==
    LET low(k) == (IF o[k] < e[k] THEN o[k] ELSE e[k]) \div 12
        high(k) == (IF o[k] > e[k] THEN o[k] ELSE e[k]) \div 12
    IN  (low(1) - 1 .. high(1)) \X (low(2) - 1 .. high(2)) \X (low(3) - 1 .. high(3))

\* The last call cast a ray from an origin outside all blocks along the unit
\* direction towards the centre of the block at cell B, nearer than
\* max_distance, and the segment to that centre crosses no other block
AimedAt(P, B) ==
    LET o == InTwelfths(call.start_pos)
        u == [k \in 1 .. 3 |-> call.direction[k] \div (U \div 3)]
        v == [k \in 1 .. 3 |-> Centre(B)[k] - o[k]]
        reach == call.max_distance \div (Twelfth \div 20)
    IN  /\ Exact(call.start_pos, Twelfth)
        /\ Exact(call.direction, U \div 3)
        /\ Dot(u, u) = 9
        /\ Cross(v, u) = <<0, 0, 0>>
        /\ Dot(v, u) > 0
        /\ 400 * Dot(v, v) < reach * reach
        /\ CellsOf(call.start_pos) \cap P = {}
        /\ \A c \in (CellsAround(o, Centre(B)) \cap P) \ {B} :
              ~CrossesBlock(o, Centre(B), c)

\* C5. Ray aimed at a block: a cast from an origin outside all blocks along the
\* unit direction towards the centre of a block B, with the segment to the
\* centre crossing no other block and shorter than max_distance, returns B's
\* own coordinate, not a neighbour's, with a distance below max_distance.
RayAimedAtBlock ==
    call.op = "ray_cast" =>
        \A P \in {Occupied(call.before)} :
        \A B \in P :
            AimedAt(P, B) =>
                /\ call.result.hit
                /\ call.result.block.position = B
                /\ call.result.distance < call.max_distance

\* A ray aimed at a block has returned that block
RayAimedSeen ==
    /\ call.op = "ray_cast"
    /\ \E B \in Occupied(call.before) :
          /\ AimedAt(Occupied(call.before), B)
          /\ call.result.hit
          /\ call.result.block.position = B

----------------------------------------------------------------------------
(* The player's update *)

\* The top face of the block at cell c
TopFace(c) == (c[2] + 1) * U

\* The update just made ended with the feet on the top face of the block at
\* cell c, at rest vertically and grounded
LandedOn(c) ==
    /\ position[2] = TopFace(c)
    /\ velocity[2] = 0
    /\ on_ground

FallSafety ==
    ( /\ call.op = "update"
      /\ call.before.position[2] + call.before.velocity[2] < FallLimit )
    => position = SpawnPoint /\ velocity = <<0, 0, 0>>

\* A moving player below the fall limit has been put back at the spawn point
FallSafetySeen ==
    /\ call.op = "update"
    /\ call.before.position[2] + call.before.velocity[2] < FallLimit
    /\ call.before.velocity[1] # 0
    /\ call.before.velocity[2] # 0
    /\ position = SpawnPoint

----------------------------------------------------------------------------
(* Placing and removing blocks *)

\* The hit point's offsets from the hit block's origin
Rel(block, point) == [k \in 1 .. 3 |-> point[k] - block[k] * U]

\* None of the three offsets is below 0.01 or above 0.99
Degenerate(block, point) ==
    \A k \in 1 .. 3 :
        Rel(block, point)[k] >= Epsilon /\ Rel(block, point)[k] <= U - Epsilon

\* C7. Degenerate face resolution: when a place action hits a block and none
\* of the three offsets is below 0.01 or above 0.99, the placement is dropped
\* silently: no error is raised, the store is unchanged and the tick goes on.
DegenerateDropped ==
    ( /\ call.op = "click"
      /\ call.button = 3
      /\ call.hit
      /\ Degenerate(call.block.position, call.point) )
    => /\ ~call.raised
       /\ pc # "crashed"
       /\ blocks = call.before

\* C8. Placement adjacency: for a hit block at (x, y, z) and a hit point whose
\* x offset from the block's origin is less than 0.01, the place action
\* computes (x - 1, y, z) as the coordinate to place at.
PlacementAdjacency ==
    (call.op = "face" /\ Rel(call.block, call.point)[1] < Epsilon)
    => call.new_pos = <<call.block[1] - 1, call.block[2], call.block[3]>>

\* The case of block (0, 0, 0) and hit point (0, 0.5, 0) has given (-1, 0, 0)
PlacementAdjacencySeen ==
    /\ call.op = "face"
    /\ call.block = <<0, 0, 0>>
    /\ call.point = <<0, U \div 2, 0>>
    /\ call.new_pos = <<-1, 0, 0>>

\* C10. Primary action: when a remove action is accepted and the ray from the
\* eye hits a block, exactly one entry leaves the store, the one the ray
\* returned, and every other entry stays as it was, in its order; when the
\* ray hits nothing the store is unchanged.
PrimaryAction ==
    (call.op = "click" /\ call.button = 1 /\ call.accepted) =>
        IF call.hit
        THEN /\ Len(blocks) = Len(call.before) - 1
             /\ call.before[call.index] = call.block
             /\ \A j \in 1 .. Len(blocks) :
                   blocks[j] = call.before[IF j < call.index THEN j ELSE j + 1]
        ELSE blocks = call.before

\* An accepted remove action has hit a block
PrimaryActionSeen ==
    /\ call.op = "click"
    /\ call.button = 1
    /\ call.accepted
    /\ call.hit
    /\ Len(blocks) = Len(call.before) - 1

----------------------------------------------------------------------------
(* Terrain generation *)

\* The entries the generation just made appended to the store
Added == SubSeq(blocks, Len(call.before) + 1, Len(blocks))

\* Those of them at or below ground level
BaseLayer == SelectSeq(Added, LAMBDA b : b.position[2] <= 0)

\* The columns of the centered square of side 2 * r
SquareOf(r) == (-r .. r - 1) \X (-r .. r - 1)

\* How many entries of the sequence are the block b
CountOf(seq, b) == Cardinality({j \in 1 .. Len(seq) : seq[j] = b})

\* C11. Flat base: for every radius r, generation places for each (x, z) with
\* -r <= x < r and -r <= z < r, and for no other column, one Stone block at
\* y = -2, one Stone block at y = -1 and one Dirt/grass block at y = 0; the
\* base layer has 3 * (2r)^2 blocks for r > 0 and none for r <= 0.
FlatBase ==
    call.op \in {"construct", "generate"} =>
        \A base \in {BaseLayer} :
            /\ \A c \in SquareOf(call.radius) :
                  /\ CountOf(base, Block(<<c[1], -2, c[2]>>, Stone)) = 1
                  /\ CountOf(base, Block(<<c[1], -1, c[2]>>, Stone)) = 1
                  /\ CountOf(base, Block(<<c[1], 0, c[2]>>, Dirt)) = 1
            /\ \A j \in 1 .. Len(base) :
                  /\ <<base[j].position[1], base[j].position[3]>> \in SquareOf(call.radius)
                  /\ base[j].position[2] \in {-2, -1, 0}
                  /\ base[j].block_type = IF base[j].position[2] = 0 THEN Dirt ELSE Stone
            /\ Len(base) = IF call.radius > 0
                           THEN 3 * (2 * call.radius) * (2 * call.radius)
                           ELSE 0

\* A world of radius 2 has been generated, with its 48 base blocks
FlatBaseSeen ==
    /\ call.op = "construct"
    /\ call.radius = 2
    /\ Len(BaseLayer) = 48

\* C12. End-to-end radius 1: a world generated with radius 1 is the base layer
\* only, with no tree blocks: the 12 blocks of 4 columns by 3 layers, each with
\* its y in {-2, -1, 0}.
RadiusOneWorld ==
    (call.op = "construct" /\ call.radius = 1) =>
        /\ Len(blocks) = 12
        /\ \A j \in 1 .. Len(blocks) : blocks[j].position[2] \in {-2, -1, 0}

\* C13. Generation idempotence: generating a second time into the same store
\* leaves the store as the first generation left it: the same coordinates
\* with the same types and the same number of entries, so that one remove of
\* any generated coordinate leaves that coordinate empty.
GenerationIdempotent ==
    (call.op = "generate" /\ inputs = 1 /\ call.radius = call.first.radius) =>
        /\ PairsOf(blocks) = PairsOf(call.before)
        /\ Len(blocks) = Len(call.before)
        /\ \A pos \in Occupied(Added) :
              EntriesAt(remove_block(blocks, pos).blocks, pos) = <<>>

----------------------------------------------------------------------------
(* Jumping *)

\* The feet of p are on the top face of a block its footprint overlaps
Standing(p, bs) ==
    \E j \in 1 .. Len(bs) :
        /\ Footprint(p, bs[j].position)
        /\ p.position[2] = TopFace(bs[j].position)

\* C15. Jump only when grounded: a jump trigger sets the vertical velocity to
\* the jump force 0.2 only if on_ground is true when it is handled, and then
\* the player is standing on a block, not airborne; a jump trigger handled
\* while on_ground is false changes no player state.
JumpOnlyGrounded ==
    (call.op = "key" /\ call.key = "SPACE") =>
        /\ position = call.before.position
        /\ on_ground = call.before.on_ground
        /\ rotation = call.rotation
        /\ selected_block = call.selected
        /\ IF call.before.on_ground
           THEN /\ velocity = [call.before.velocity EXCEPT ![2] = JUMP_FORCE]
                /\ Standing(call.before, blocks)
           ELSE velocity = call.before.velocity

\* A jump trigger has been ignored in the air, after one that was honoured
\* on the ground
JumpOnlyGroundedSeen ==
    /\ call.op = "key"
    /\ call.key = "SPACE"
    /\ ~call.before.on_ground
    /\ call.before.position[2] > U
    /\ call.before.velocity[2] > 0
    /\ velocity = call.before.velocity

----------------------------------------------------------------------------
(* The cooldown of the place and remove actions *)

\* C16. Action cooldown: the last-action timestamp moves only when a mouse
\* button event is accepted (runs a ray cast), and then to the time of the
\* event, which is more than 200 ms after the timestamp it replaces, so two
\* accepted actions are always more than 200 ms apart; an event that comes
\* within the cooldown changes neither the store nor the timestamp.
ActionCooldown ==
    [][ /\ last_place_time' # last_place_time =>
              /\ call'.op = "click"
              /\ call'.accepted
              /\ inputs' = inputs + 1
        /\ (call'.op = "click" /\ inputs' = inputs + 1) =>
              IF call'.accepted
              THEN /\ clock - last_place_time > BlockCooldown
                   /\ last_place_time' = clock
              ELSE /\ blocks' = blocks
                   /\ last_place_time' = last_place_time ]_vars

\* A second action has been accepted, after one that changed the store
ActionCooldownSeen ==
    /\ call.op = "click"
    /\ call.accepted
    /\ call.last_time > 0
    /\ call.now - call.last_time > BlockCooldown
    /\ Len(call.before) # Len(NewWorld)

\* A block above ground level meets the footprint of p
Overhead(p, bs) ==
    \E j \in 1 .. Len(bs) :
        /\ Footprint(p, bs[j].position)
        /\ bs[j].position[2] >= 1

\* C17. Jump lands on the same surface: a player at rest and grounded on the
\* flat terrain, feet at y = 1 and nothing overhead, who gets one jump trigger
\* and no other input, is at the end of no tick with its feet below the top
\* face of the block it jumped from, and whenever it is grounded again its
\* feet are at the same height y = 1.
JumpLandsOnSurface ==
    (pc = "events" /\ ~Overhead(ThePlayer, blocks)) =>
        /\ position[2] >= U
        /\ on_ground => position[2] = U

----------------------------------------------------------------------------
(* Walking *)

\* The box of p (x +/- 0.3, z +/- 0.3, height 1.8) meets the inside of the
\* unit cube of the block at cell c
Penetrates(p, c) ==
    /\ p.position[1] - HalfWidth < (c[1] + 1) * U
    /\ p.position[1] + HalfWidth > c[1] * U
    /\ p.position[2] < (c[2] + 1) * U
    /\ p.position[2] + PlayerHeight > c[2] * U
    /\ p.position[3] - HalfWidth < (c[3] + 1) * U
    /\ p.position[3] + HalfWidth > c[3] * U

\* C19. No horizontal penetration: for a grounded player on the generated
\* terrain driven by horizontal movement inputs only, at the end of every
\* tick the player's box meets the inside of no block.
NoPenetration ==
    pc = "events" =>
        \A j \in 1 .. Len(blocks) : ~Penetrates(ThePlayer, blocks[j].position)

----------------------------------------------------------------------------
(* Side and ceiling contact *)

\* p overlaps the height span of the block at cell c, with the margin of 0.1
VerticalOverlap(p, c) ==
    /\ p.position[2] + Tenth < (c[2] + 1) * U
    /\ p.position[2] + PlayerHeight - Tenth > c[2] * U

\* The update ended with the player on axis k at a face of the block at cell
\* c (block - 0.3 or block + 1.3) and at rest on that axis
PushedOut(c, k) ==
    /\ position[k] \in {c[k] * U - HalfWidth, (c[k] + 1) * U + HalfWidth}
    /\ velocity[k] = 0

ShallowLow(p, c, k) ==
    /\ p.position[k] + HalfWidth >= c[k] * U
    /\ p.position[k] + HalfWidth <= c[k] * U + Tenth

\* On axis k the edge of p's box is at most 0.1 past the high face of cell c
ShallowHigh(p, c, k) ==
    /\ p.position[k] - HalfWidth <= (c[k] + 1) * U
    /\ p.position[k] - HalfWidth >= (c[k] + 1) * U - Tenth

HeadBelow(p, c) ==
    /\ p.position[2] + PlayerHeight <= c[2] * U
    /\ p.position[2] + PlayerHeight >= c[2] * U - Tenth

\* The head of p is in the band of 0.1 just above the bottom face of cell c
HeadInside(p, c) ==
    /\ p.position[2] + PlayerHeight >= c[2] * U
    /\ p.position[2] + PlayerHeight <= c[2] * U + Tenth

\* The update ended with the head at the bottom face of cell c, at rest
\* vertically and not grounded
HeadAt(c) ==
    /\ position[2] = c[2] * U - PlayerHeight
    /\ velocity[2] = 0
    /\ ~on_ground

\* C20. Ceiling contact: when, once the tick's velocity has been added, the
\* player's head (feet + 1.8) lies in the band of at most 0.1 just below the
\* bottom face of a block its footprint overlaps, the update snaps the head
\* to that face (feet = block y - 1.8) and sets the vertical velocity to 0,
\* and does not set on_ground.
CeilingContact ==
    call.op = "update" =>
        \A moved \in {ApplyVelocity(call.before)} :
        \A j \in 1 .. Len(blocks) :
            (Footprint(moved, blocks[j].position) /\ HeadBelow(moved, blocks[j].position))
            => HeadAt(blocks[j].position)

\* C20, as the code has it: the band is the 0.1 just above the bottom face,
\* that is a head that has entered the block by at most 0.1.
CeilingContactInside ==
    call.op = "update" =>
        \A moved \in {ApplyVelocity(call.before)} :
        \A j \in 1 .. Len(blocks) :
            (Footprint(moved, blocks[j].position) /\ HeadInside(moved, blocks[j].position))
            => HeadAt(blocks[j].position)

\* A rising player whose head had entered the leaves by 0.05 has been put
\* back under them
CeilingContactSeen ==
    /\ call.op = "update"
    /\ call.before.position[2] + call.before.velocity[2] = 2 * U + U \div 4
    /\ call.before.velocity[2] > 0
    /\ position[2] = 4 * U - PlayerHeight
    /\ velocity[2] = 0
    /\ ~on_ground

----------------------------------------------------------------------------
(* The grounded flag *)

\* The feet of p are in the band from the top face of cell c to 0.1 above it
InGroundBand(p, c) ==
    /\ p.position[2] >= TopFace(c)
    /\ p.position[2] <= TopFace(c) + Tenth

\* A ground contact fires for p in the store bs
GroundContact(p, bs) ==
    \E j \in 1 .. Len(bs) :
        Footprint(p, bs[j].position) /\ InGroundBand(p, bs[j].position)

\* A ceiling contact fires for p in the store bs
CeilingHit(p, bs) ==
    \E j \in 1 .. Len(bs) :
        Footprint(p, bs[j].position) /\ HeadInside(p, bs[j].position)

\* C21. Grounded is recomputed each tick: at the end of every Player.update
\* on_ground is true if and only if a ground contact fired in that update, so
\* a grounded player whose footprint no longer overlaps a block with the feet
\* in the band [top, top + 0.1] ends the tick with on_ground false; and in an
\* update that starts with on_ground false gravity is applied (the vertical
\* velocity goes down by 0.01, unless a contact or the fall reset zeroes it),
\* while one that starts with on_ground true applies none.
GroundedRecomputed ==
    call.op = "update" =>
        \A moved \in {ApplyVelocity(call.before)} :
            /\ on_ground <=> GroundContact(moved, blocks)
            /\ ( /\ ~GroundContact(moved, blocks)
                 /\ ~CeilingHit(moved, blocks)
                 /\ moved.position[2] >= FallLimit ) =>
                  velocity[2] = IF call.before.on_ground
                                THEN call.before.velocity[2]
                                ELSE call.before.velocity[2] - GRAVITY

\* A player that had walked off the edge of the terrain, and so had ended a
\* tick not grounded, has had gravity applied in the tick after it
GroundedRecomputedSeen ==
    /\ call.op = "update"
    /\ ~call.before.on_ground
    /\ call.before.position[2] = U
    /\ call.before.velocity[2] = 0
    /\ call.before.position[1] - HalfWidth > RENDER_DISTANCE * U
    /\ ~on_ground
    /\ velocity[2] = -GRAVITY

\* C26. Grounded implies zero vertical velocity: at the end of every
\* Player.update, on_ground true implies that the vertical velocity is 0.
GroundedAtRest ==
    (call.op = "update" /\ on_ground) => velocity[2] = 0

\* A falling player has been grounded, and its fall stopped
GroundedAtRestSeen ==
    /\ call.op = "update"
    /\ call.before.velocity[2] < 0
    /\ on_ground
    /\ velocity[2] = 0

----------------------------------------------------------------------------
(* The order of the steps of a frame *)

\* The camera of a player whose feet are at pos
CameraAt(pos) == [pos EXCEPT ![2] = @ + CameraOffset]

----------------------------------------------------------------------------
(* The face a hit point is on *)

\* The axes on which the hit point's offset is within 0.01 of 0 or of 1
PassingAxes(block, point) ==
    {k \in 1 .. 3 : \/ Rel(block, point)[k] < Epsilon
                    \/ Rel(block, point)[k] > U - Epsilon}

\* The block's coordinate moved one unit outward on axis k
Outward(block, point, k) ==
    [block EXCEPT ![k] = IF Rel(block, point)[k] < Epsilon THEN @ - 1 ELSE @ + 1]

\* C23. Face detection uses exactly one axis: a placement coordinate is
\* produced only when exactly one of the three offsets is within 0.01 of 0 or
\* of 1, and then it is the hit block's coordinate moved one unit outward on
\* that axis; a hit point for which two or more axes pass the test (or none)
\* yields no placement coordinate.
FaceOnOneAxis ==
    call.op = "face" =>
        IF Cardinality(PassingAxes(call.block, call.point)) = 1
        THEN \A k \in PassingAxes(call.block, call.point) :
                 call.new_pos = Outward(call.block, call.point, k)
        ELSE call.new_pos = Unbound

----------------------------------------------------------------------------
(* Where a block is placed *)

\* C24. Placement targets an empty cell: whenever a place action adds a
\* block, the coordinate it is added at held no block before the action.
PlacementTargetsEmpty ==
    (call.op = "click" /\ call.placed) =>
        call.new_pos \notin Occupied(call.before)

\* The closed unit cube of cell n meets (intersects or touches) the closed box
\* [x - 0.3, x + 0.3] x [y, y + 1.8] x [z - 0.3, z + 0.3] of a player at pos
MeetsPlayer(n, pos) ==
    /\ n[1] * U <= pos[1] + HalfWidth /\ pos[1] - HalfWidth <= (n[1] + 1) * U
    /\ n[2] * U <= pos[2] + PlayerHeight /\ pos[2] <= (n[2] + 1) * U
    /\ n[3] * U <= pos[3] + HalfWidth /\ pos[3] - HalfWidth <= (n[3] + 1) * U

\* C25. Placement never encloses the player: a place action that has hit a
\* block and has a coordinate n to place at adds the block at n when the
\* closed unit cube of n does not meet the player's closed box at that
\* moment, and otherwise adds nothing and leaves the store unchanged.
PlacementClearOfPlayer ==
    (call.op = "click" /\ call.button = 3 /\ call.hit /\ ~call.raised) =>
        IF MeetsPlayer(call.new_pos, call.player)
        THEN blocks = call.before
        ELSE /\ blocks = Append(call.before, Block(call.new_pos, call.selected))
             /\ ~MeetsPlayer(blocks[Len(blocks)].position, position)

\* A block has been placed away from the player
PlacementClearOfPlayerSeen ==
    /\ call.op = "click"
    /\ call.button = 3
    /\ call.placed
    /\ Len(blocks) = Len(call.before) + 1
    /\ ~MeetsPlayer(call.new_pos, position)

\* A placement at a cell that touches the player has been refused
PlacementRefusedSeen ==
    /\ call.op = "click"
    /\ call.button = 3
    /\ call.hit
    /\ ~call.raised
    /\ MeetsPlayer(call.new_pos, position)
    /\ blocks = call.before

----------------------------------------------------------------------------
(* The trees *)

\* The bases of the two trees
TreeBases == {Tree1, Tree2}

\* The block types of the entries that the last call added at coordinate pos
TypesAt(pos) == {Added[j].block_type : j \in {i \in 1 .. Len(Added) : Added[i].position = pos}}

\* C27. Tree trunk: each of the two generated trees has a trunk of 4
\* vertically consecutive cells going up from its base, and once generation
\* has finished each of the 4 cells holds a Wood block and no Leaves block.
TrunkIsWood ==
    call.op \in {"construct", "generate"} =>
        \A t \in TreeBases : \A i \in 0 .. 3 :
            /\ Wood \in TypesAt(<<t[1], t[2] + i, t[3]>>)
            /\ Leaves \notin TypesAt(<<t[1], t[2] + i, t[3]>>)

\* The offsets of the two wide layers of a canopy
WideLayers ==
    {d \in (-2 .. 2) \X {3, 4} \X (-2 .. 2) : ~(Abs(d[1]) = 2 /\ Abs(d[3]) = 2)}

\* The offsets of the top layer with the cells further than 1 out skipped
TopSquare == {d \in (-2 .. 2) \X {5} \X (-2 .. 2) : Abs(d[1]) <= 1 /\ Abs(d[3]) <= 1}

\* Those of them that make a cross
TopCross == {d \in TopSquare : d[1] = 0 \/ d[3] = 0}

\* The cells of a canopy with the given offsets at the tree with base t
CanopyOf(t, offsets) == {<<t[1] + d[1], t[2] + d[2], t[3] + d[3]>> : d \in offsets}

\* The coordinates at which the last call added Leaves blocks
LeavesAdded == {Added[j].position : j \in {i \in 1 .. Len(Added) : Added[i].block_type = Leaves}}

\* Generation has added Leaves at exactly the cells of the two canopies of
\* the given offsets, one block at each, and the two canopies share no cell
CanopyIs(offsets) ==
    /\ LeavesAdded = UNION {CanopyOf(t, offsets) : t \in TreeBases}
    /\ \A c \in LeavesAdded : CountOf(Added, Block(c, Leaves)) = 1
    /\ CanopyOf(Tree1, offsets) \cap CanopyOf(Tree2, offsets) = {}

\* C28 as stated. Tree canopy: Leaves blocks are placed at exactly the offsets
\* with dy in {3, 4}, |dx| <= 2, |dz| <= 2 and not (|dx| = 2 and |dz| = 2),
\* plus a top layer dy = 5 that is a cross within |dx| <= 1, |dz| <= 1, and
\* nowhere else; the canopies of the two trees share no coordinate.
CanopyCross ==
    call.op \in {"construct", "generate"} => CanopyIs(WideLayers \cup TopCross)

\* C28, amended. Tree canopy: Leaves blocks are placed at exactly the offsets
\* with dy in {3, 4}, |dx| <= 2, |dz| <= 2 and not (|dx| = 2 and |dz| = 2),
\* plus the top layer dy = 5 at every offset with |dx| <= 1 and |dz| <= 1 (a
\* 3 x 3 square), and nowhere else; the canopies of the two trees share no
\* coordinate.
CanopyShape ==
    call.op \in {"construct", "generate"} => CanopyIs(WideLayers \cup TopSquare)

\* A world has been constructed; a corner of the top layer of the first
\* tree's canopy holds Leaves
CanopyShapeSeen ==
    /\ call.op = "construct"
    /\ call.radius = 2
    /\ Block(<<Tree1[1] + 1, Tree1[2] + 5, Tree1[3] + 1>>, Leaves) \in
           {blocks[j] : j \in 1 .. Len(blocks)}
    /\ Cardinality(LeavesAdded) = 102

----------------------------------------------------------------------------
(* Damping *)

\* Both horizontal velocity components are 0
AtRest == velocity[1] = 0 /\ velocity[3] = 0

\* Component k of the velocity after a step is 0, or 0.8 of what it was and
\* not below 0.01 in magnitude
Damped(k) ==
    \/ velocity'[k] = 0
    \/ /\ Abs(10 * velocity'[k] - 8 * velocity[k]) < 10
       /\ 100 * Abs(velocity'[k]) >= U

\* C29 as stated. Damping stops drift: with no further movement input, from
\* any horizontal velocity both components reach 0 after finitely many ticks
\* and stay 0, and the player's x and z then stop changing.
DampingStopsDrift ==
    /\ <>[]AtRest
    /\ [][AtRest => /\ AtRest'
                    /\ position'[1] = position[1]
                    /\ position'[3] = position[3]]_vars

\* C29, amended. Each Player.update leaves a horizontal velocity component
\* at 0.8 of its value, or at 0 when that is below 0.01 in magnitude (or a
\* collision or the fall reset has zeroed it); with no further movement
\* input both components reach 0 after finitely many ticks and stay 0, and
\* from then on x and z change only when the fall reset puts the player
\* back at the spawn point.
DampingSettles ==
    /\ <>[]AtRest
    /\ [][pc = "update" => Damped(1) /\ Damped(3)]_vars
    /\ [][AtRest => /\ AtRest'
                    /\ \/ position'[1] = position[1] /\ position'[3] = position[3]
                       \/ /\ position[2] + velocity[2] < FallLimit
                          /\ position' = SpawnPoint]_vars

\* A drifting player has come to rest: the damping has set the x velocity
\* to 0 in an update that moved the player
DampingSettlesSeen ==
    /\ call.op = "update"
    /\ call.before.velocity[1] # 0
    /\ position[1] = call.before.position[1] + call.before.velocity[1]
    /\ AtRest

\* A player at rest horizontally has been put back at the spawn point
DriftResetSeen ==
    /\ call.op = "update"
    /\ call.before.velocity[1] = 0
    /\ call.before.velocity[3] = 0
    /\ call.before.position[1] # 0
    /\ position = SpawnPoint

----------------------------------------------------------------------------
(* Looking around *)

\* C30. Pitch clamp: after every input-handling step, for any sequence of
\* look deltas, the pitch (rotation[1] of the code) lies in the closed range
\* [-90, +90] degrees, while the yaw is left unclamped: it is the yaw before
\* the step plus the step's delta.
PitchClamp ==
    /\ rotation[2] >= -90
    /\ rotation[2] <= 90
    /\ call.op = "input" =>
          rotation[1] = call.rotation[1] + (call.mouse_change[1] * ROTATION_SPEED) \div 10

\* A third look of 45 degrees round and down has left the pitch at -90 and
\* taken the yaw to 135
PitchClampSeen ==
    /\ call.op = "input"
    /\ call.mouse_change = <<450, 450>>
    /\ call.rotation = <<90, -90>>
    /\ rotation = <<135, -90>>

=============================================================================
